---- MODULE Spec2Model ----
\* Model of src/Chapter01/datastructures.py: the indexed binary min-heap OurHeap
\* (heap list with a sentinel at index 0 plus the rank dictionary) and the
\* two-stack FIFO OurQueue.
\*
\* Python lists are TLA+ sequences holding the list in order; Python index i is
\* position i + 1 of the sequence (Get / Set below), so len(list) = Len(seq).
\* A Python dict is a function whose DOMAIN is its key set.
\* Every method is a pure operator from the object's fields to a record of the
\* new fields and the outcome `ret` (a returned value, None, or a raised
\* exception); the actions apply these operators to the state.
EXTENDS Integers, Sequences, FiniteSets

VARIABLES heap, rank, in_stack, out_stack, call, ret, pushed, popped, phase,
          pc, loc, moved, thr, lock, search, fibo, sweep

vars == <<heap, rank, in_stack, out_stack, call, ret, pushed, popped, phase,
          pc, loc, moved, thr, lock, search, fibo, sweep>>

\* ---------------------------------------------------------------- bounds
\* Heap elements are the integers 1..MaxElem.
MaxElem == 6
\* When callers ignore the preconditions the arguments are 1..MaxAnyElem, and
\* pushes stop at MaxSize occupied slots (duplicates would otherwise let the
\* list grow without limit).
MaxAnyElem == 4
MaxSize == 4
\* Queue items are the integers 1..MaxItem; at most MaxPush pushes are issued.
MaxItem == 3
MaxPush == 4
\* The constructor is given at most MaxCtor items.
MaxCtor == 4
\* Before the two threads start the heap is filled with at most MaxSetup
\* elements.
MaxSetup == 2
\* discrete_binary_search is given boolean arrays of at most MaxTab values.
MaxTab == 6
\* fibo_dp is called with n in 0..MaxFib.
MaxFib == 16
\* max_interval_intersec is given at most MaxIntervals intervals with end
\* points in 0..MaxPoint.
MaxPoint == 4
MaxIntervals == 2

Elem == 1..MaxElem
AnyElem == 1..MaxAnyElem
Item == 1..MaxItem

\* ------------------------------------------------------- Python values
None == "None"

\* The outcome of a call.
Returned(v) == [kind |-> "value", val |-> v, exc |-> ""]
ReturnedNone == [kind |-> "none", val |-> 0, exc |-> ""]
Raised(e) == [kind |-> "raise", val |-> 0, exc |-> e]

\* The call that produced the current state (op, first and second argument).
Call(op, a, b) == [op |-> op, a |-> a, b |-> b]

\* list[i] and list[i] = v for a Python index i.
Get(l, i) == l[i + 1]
Set(l, i, v) == [l EXCEPT ![i + 1] = v]
\* list.pop(): the list without its last element.
DropLast(l) == SubSeq(l, 1, Len(l) - 1)

\* dict[k] = v, del dict[k], {}.
DictSet(d, k, v) == [x \in (DOMAIN d) \cup {k} |-> IF x = k THEN v ELSE d[x]]
DictDel(d, k) == [x \in (DOMAIN d) \ {k} |-> d[x]]
EmptyDict == [x \in {} |-> 0]

\* ---------------------------------------------------------------- OurHeap
\* OurHeap.__len__
HeapLen(h) == Len(h) - 1

\* Variant of up_test with the comparison turned round.
up_test_reversed(h, i, x) == i > 1 /\ x > Get(h, i \div 2)

\* Variant of up_move that forgets the rank entry of the moved parent.
up_move_norank(h, r, i) ==
    [heap |-> Set(h, i, Get(h, i \div 2)), rank |-> r]

\* Variant of down_child that takes the first smaller child, not the smaller
\* of the two.
down_child_first(h, i, x, n) ==
    LET left == 2 * i
        right == left + 1
    IN  IF left < n /\ Get(h, left) < x
        THEN left
        ELSE IF right < n /\ Get(h, right) < x
             THEN right
             ELSE i

\* Variant of down_child that moves the right child up whenever it is smaller
\* than the sifted element, without comparing it with the left child.
down_child_right_first(h, i, x, n) ==
    LET left == 2 * i
        right == left + 1
    IN  IF right < n /\ Get(h, right) < x
        THEN right
        ELSE IF left < n /\ Get(h, left) < x
             THEN left
             ELSE i

\* The loop test of up.
up_test(h, i, x) == i > 1 /\ x < Get(h, i \div 2)

\* One iteration of up's loop body: the parent moves down into slot i.
up_move(h, r, i) ==
    [heap |-> Set(h, i, Get(h, i \div 2)),
     rank |-> DictSet(r, Get(h, i \div 2), i)]

\* Variant of up that compares with the slot just before i and steps back one
\* slot at a time.
RECURSIVE up_linear_loop(_, _, _, _)
up_linear_loop(h, r, i, x) ==
    IF i > 1 /\ x < Get(h, i - 1)
    THEN up_linear_loop(Set(h, i, Get(h, i - 1)),
                        DictSet(r, Get(h, i - 1), i), i - 1, x)
    ELSE [heap |-> Set(h, i, x), rank |-> DictSet(r, x, i)]

up_linear(h, r, i) == up_linear_loop(h, r, i, Get(h, i))

\* Variant of up_next that leaves the index where it is.
up_next_same(i) == i

\* The index update of up's loop body.
up_next(i) == i \div 2

RECURSIVE up_loop(_, _, _, _)
up_loop(h, r, i, x) ==
    IF up_test(h, i, x)
    THEN LET m == up_move(h, r, i)
         IN  up_loop(m.heap, m.rank, i \div 2, x)
    ELSE [heap |-> Set(h, i, x), rank |-> DictSet(r, x, i)]

\* OurHeap.up
up(h, r, i) == up_loop(h, r, i, Get(h, i))

\* The branch taken by one iteration of down: the slot of the child that moves
\* up, or i itself when the element is put down at i.
down_child(h, i, x, n) ==
    LET left == 2 * i
        right == left + 1
    IN  IF right < n /\ Get(h, right) < x /\ Get(h, right) < Get(h, left)
        THEN right
        ELSE IF left < n /\ Get(h, left) < x
             THEN left
             ELSE i

RECURSIVE down_loop(_, _, _, _, _)
down_loop(h, r, i, x, n) ==
    LET c == down_child(h, i, x, n)
    IN  IF c # i
        THEN down_loop(Set(h, i, Get(h, c)), DictSet(r, Get(h, c), i), c, x, n)
        ELSE [heap |-> Set(h, i, x), rank |-> DictSet(r, x, i)]

\* OurHeap.down
down(h, r, i) == down_loop(h, r, i, Get(h, i), Len(h))

\* Variant of push without the assertion on rank membership.
push_noassert(h, r, x) ==
    LET i == Len(h)
        u == up(Append(h, x), DictSet(r, x, i), i)
    IN  [heap |-> u.heap, rank |-> u.rank, ret |-> ReturnedNone]

\* OurHeap.push
OurHeap_push(h, r, x) ==
    IF x \in DOMAIN r
    THEN [heap |-> h, rank |-> r, ret |-> Raised("AssertionError")]
    ELSE LET i == Len(h)
             u == up(Append(h, x), DictSet(r, x, i), i)
         IN  [heap |-> u.heap, rank |-> u.rank, ret |-> ReturnedNone]

RECURSIVE init_loop(_, _, _, _)
\* The loop of __init__ from the k-th item on; a push that raises ends it.
init_loop(h, r, items, k) ==
    IF k > Len(items)
    THEN [heap |-> h, rank |-> r, ret |-> ReturnedNone]
    ELSE LET p == OurHeap_push(h, r, items[k])
         IN  IF p.ret.kind = "raise"
             THEN p
             ELSE init_loop(p.heap, p.rank, items, k + 1)

\* Variant of __init__ that takes the items last to first.
init_backwards(items) ==
    init_loop(<<None>>, EmptyDict,
              [k \in 1..Len(items) |-> items[Len(items) + 1 - k]], 1)

\* OurHeap.__init__
OurHeap_init(items) == init_loop(<<None>>, EmptyDict, items, 1)

\* Variant of pop that leaves the root's entry in rank.
pop_keep_rank(h, r) ==
    IF ~(1 < Len(h))
    THEN [heap |-> h, rank |-> r, ret |-> Raised("IndexError")]
    ELSE LET root == Get(h, 1)
         IN  IF root \notin DOMAIN r
             THEN [heap |-> h, rank |-> r, ret |-> Raised("KeyError")]
             ELSE LET x == Get(h, Len(h) - 1)
                      h1 == DropLast(h)
                  IN  IF HeapLen(h1) # 0
                      THEN LET d == down(Set(h1, 1, x), DictSet(r, x, 1), 1)
                           IN  [heap |-> d.heap, rank |-> d.rank,
                                ret |-> Returned(root)]
                      ELSE [heap |-> h1, rank |-> r, ret |-> Returned(root)]

\* Variant of pop that puts the last leaf at the root and does not sift it down.
pop_nodown(h, r) ==
    IF ~(1 < Len(h))
    THEN [heap |-> h, rank |-> r, ret |-> Raised("IndexError")]
    ELSE LET root == Get(h, 1)
         IN  IF root \notin DOMAIN r
             THEN [heap |-> h, rank |-> r, ret |-> Raised("KeyError")]
             ELSE LET r1 == DictDel(r, root)
                      x == Get(h, Len(h) - 1)
                      h1 == DropLast(h)
                  IN  IF HeapLen(h1) # 0
                      THEN [heap |-> Set(h1, 1, x), rank |-> DictSet(r1, x, 1),
                            ret |-> Returned(root)]
                      ELSE [heap |-> h1, rank |-> r1, ret |-> Returned(root)]

\* Variant of pop that reads the root with a non-raising index (heap[-1]): on
\* the empty heap it returns the sentinel.
pop_sentinel(h, r) ==
    IF ~(1 < Len(h))
    THEN [heap |-> h, rank |-> r, ret |-> ReturnedNone]
    ELSE LET root == Get(h, 1)
         IN  IF root \notin DOMAIN r
             THEN [heap |-> h, rank |-> r, ret |-> Raised("KeyError")]
             ELSE LET r1 == DictDel(r, root)
                      x == Get(h, Len(h) - 1)
                      h1 == DropLast(h)
                  IN  IF HeapLen(h1) # 0
                      THEN LET d == down(Set(h1, 1, x), DictSet(r1, x, 1), 1)
                           IN  [heap |-> d.heap, rank |-> d.rank,
                                ret |-> Returned(root)]
                      ELSE [heap |-> h1, rank |-> r1, ret |-> Returned(root)]

\* OurHeap.pop
OurHeap_pop(h, r) ==
    IF ~(1 < Len(h))
    THEN [heap |-> h, rank |-> r, ret |-> Raised("IndexError")]
    ELSE LET root == Get(h, 1)
         IN  IF root \notin DOMAIN r
             THEN [heap |-> h, rank |-> r, ret |-> Raised("KeyError")]
             ELSE LET r1 == DictDel(r, root)
                      x == Get(h, Len(h) - 1)
                      h1 == DropLast(h)
                  IN  IF HeapLen(h1) # 0
                      THEN LET d == down(Set(h1, 1, x), DictSet(r1, x, 1), 1)
                           IN  [heap |-> d.heap, rank |-> d.rank,
                                ret |-> Returned(root)]
                      ELSE [heap |-> h1, rank |-> r1, ret |-> Returned(root)]

\* Variant of update_dir that sifts down when old and new compare equal.
update_dir_le(old, new) == IF old <= new THEN "down" ELSE "up"

\* The sift that update chooses.
update_dir(old, new) == IF old < new THEN "down" ELSE "up"

\* Variant of update that always sifts up, whatever the direction of change.
update_always_up(h, r, old, new) ==
    IF old \notin DOMAIN r
    THEN [heap |-> h, rank |-> r, ret |-> Raised("KeyError")]
    ELSE LET i == r[old]
             r1 == DictDel(r, old)
         IN  IF ~(i < Len(h))
             THEN [heap |-> h, rank |-> r1, ret |-> Raised("IndexError")]
             ELSE LET s == up(Set(h, i, new), DictSet(r1, new, i), i)
                  IN  [heap |-> s.heap, rank |-> s.rank, ret |-> ReturnedNone]

\* Variant of update that treats a missing old as an insertion of new.
update_or_insert(h, r, old, new) ==
    IF old \notin DOMAIN r
    THEN OurHeap_push(h, r, new)
    ELSE LET i == r[old]
             r1 == DictDel(r, old)
         IN  IF ~(i < Len(h))
             THEN [heap |-> h, rank |-> r1, ret |-> Raised("IndexError")]
             ELSE LET h1 == Set(h, i, new)
                      r2 == DictSet(r1, new, i)
                      s == IF old < new THEN down(h1, r2, i) ELSE up(h1, r2, i)
                  IN  [heap |-> s.heap, rank |-> s.rank, ret |-> ReturnedNone]

\* OurHeap.update
update(h, r, old, new) ==
    IF old \notin DOMAIN r
    THEN [heap |-> h, rank |-> r, ret |-> Raised("KeyError")]
    ELSE LET i == r[old]
             r1 == DictDel(r, old)
         IN  IF ~(i < Len(h))
             THEN [heap |-> h, rank |-> r1, ret |-> Raised("IndexError")]
             ELSE LET h1 == Set(h, i, new)
                      r2 == DictSet(r1, new, i)
                      s == IF old < new THEN down(h1, r2, i) ELSE up(h1, r2, i)
                  IN  [heap |-> s.heap, rank |-> s.rank, ret |-> ReturnedNone]

\* --------------------------------------------------------------- OurQueue
\* Variant of reversed that keeps the order.
reversed_same(l) == l

\* list[::-1]
reversed(l) == [k \in 1..Len(l) |-> l[Len(l) + 1 - k]]

\* OurQueue.__len__
QueueLen(ins, outs) == Len(ins) + Len(outs)

\* Variant of push that appends to the outbound stack.
queue_push_out(ins, outs, obj) ==
    [in_stack |-> ins, out_stack |-> Append(outs, obj), ret |-> ReturnedNone]

\* OurQueue.push
OurQueue_push(ins, outs, obj) ==
    [in_stack |-> Append(ins, obj), out_stack |-> outs, ret |-> ReturnedNone]

\* Variant of pop that returns None on an empty queue.
queue_pop_none(ins, outs) ==
    LET refill == outs = <<>>
        o1 == IF refill THEN reversed(ins) ELSE outs
        i1 == IF refill THEN <<>> ELSE ins
    IN  IF o1 = <<>>
        THEN [in_stack |-> i1, out_stack |-> o1, ret |-> ReturnedNone]
        ELSE [in_stack |-> i1, out_stack |-> DropLast(o1),
              ret |-> Returned(o1[Len(o1)])]

\* Variant of pop that does not reinitialise in_stack after the refill.
queue_pop_keep_in(ins, outs) ==
    LET refill == outs = <<>>
        o1 == IF refill THEN reversed(ins) ELSE outs
    IN  IF o1 = <<>>
        THEN [in_stack |-> ins, out_stack |-> o1, ret |-> Raised("IndexError")]
        ELSE [in_stack |-> ins, out_stack |-> DropLast(o1),
              ret |-> Returned(o1[Len(o1)])]

\* Variant of pop that refills whenever in_stack holds items.
queue_pop_refill_early(ins, outs) ==
    LET refill == ins # <<>>
        o1 == IF refill THEN reversed(ins) ELSE outs
        i1 == IF refill THEN <<>> ELSE ins
    IN  IF o1 = <<>>
        THEN [in_stack |-> i1, out_stack |-> o1, ret |-> Raised("IndexError")]
        ELSE [in_stack |-> i1, out_stack |-> DropLast(o1),
              ret |-> Returned(o1[Len(o1)])]

\* OurQueue.pop
OurQueue_pop(ins, outs) ==
    LET refill == outs = <<>>
        o1 == IF refill THEN reversed(ins) ELSE outs
        i1 == IF refill THEN <<>> ELSE ins
    IN  IF o1 = <<>>
        THEN [in_stack |-> i1, out_stack |-> o1, ret |-> Raised("IndexError")]
        ELSE [in_stack |-> i1, out_stack |-> DropLast(o1),
              ret |-> Returned(o1[Len(o1)])]

\* The number of elements that pop copies from in_stack to out_stack: all of
\* in_stack when out_stack is empty, none otherwise.
pop_transfers(ins, outs) == IF outs = <<>> THEN Len(ins) ELSE 0

\* ------------------------------------------------------------------ state
\* The local variables of a running up or down (i, x, n) and the root that a
\* running pop will return; all 0 while no call is running.
NoLoc == [i |-> 0, x |-> 0, n |-> 0, root |-> 0]

\* The outcome while a call is still running.
Pending == [kind |-> "pending", val |-> 0, exc |-> ""]

\* The frames of the functions of util.py while none of them has been called:
\* discrete_binary_search (tab, lo, hi, low), fibo_dp (n, i, mem) and
\* max_interval_intersec (S, the sorted list B and its position k, c, best).
NoSearch ==
    [pc |-> "idle", tab |-> <<>>, lo |-> 0, hi |-> 0, low |-> 0,
     ret |-> Pending]

NoFibo == [pc |-> "idle", n |-> 0, i |-> 0, mem |-> <<>>, ret |-> Pending]

NoSweep ==
    [pc |-> "idle", S |-> <<>>, B |-> <<>>, k |-> 0, c |-> 0,
     best |-> <<>>, ret |-> Pending]

\* Two threads share one heap; each makes one call.
Thread == {1, 2}

\* The frame of a thread: its position (the statement it executes next, "idle"
\* before its call and "done" after), the call and its argument, the locals
\* i, x, n, root and the moving child c, and the outcome of the call.
IdleThread ==
    [pc |-> "idle", op |-> "", a |-> 0, i |-> 0, x |-> 0, n |-> 0, root |-> 0,
     c |-> 0, ret |-> Pending]

\* OurHeap([]) and OurQueue() right after construction.
Init ==
    /\ heap = <<None>>
    /\ rank = EmptyDict
    /\ in_stack = <<>>
    /\ out_stack = <<>>
    /\ call = Call("init", 0, 0)
    /\ ret = ReturnedNone
    /\ pushed = <<>>
    /\ popped = <<>>
    /\ phase = "push"
    /\ pc = "idle"
    /\ loc = NoLoc
    /\ moved = 0
    /\ thr = [t \in Thread |-> IdleThread]
    /\ lock = [used |-> TRUE, owner |-> 0]
    /\ search = NoSearch
    /\ fibo = NoFibo
    /\ sweep = NoSweep

\* The elements stored in the occupied slots 1..len(heap)-1.
Stored(h) == {Get(h, i) : i \in 1..HeapLen(h)}

HeapDo(res, c) ==
    /\ heap' = res.heap
    /\ rank' = res.rank
    /\ ret' = res.ret
    /\ call' = c

Push(x) ==
    /\ HeapDo(OurHeap_push(heap, rank, x), Call("push", x, 0))
    /\ UNCHANGED <<in_stack, out_stack, pushed, popped, phase, pc, loc, moved,
                   thr, lock, search, fibo, sweep>>

Pop ==
    /\ HeapDo(OurHeap_pop(heap, rank), Call("pop", 0, 0))
    /\ UNCHANGED <<in_stack, out_stack, pushed, popped, phase, pc, loc, moved,
                   thr, lock, search, fibo, sweep>>

Update(old, new) ==
    /\ HeapDo(update(heap, rank, old, new), Call("update", old, new))
    /\ UNCHANGED <<in_stack, out_stack, pushed, popped, phase, pc, loc, moved,
                   thr, lock, search, fibo, sweep>>

\* The callers' obligations on the heap.
PushPre(x) == x \notin DOMAIN rank
PopPre == HeapLen(heap) > 0
UpdatePre(old, new) == old \in Stored(heap) /\ new \notin Stored(heap) \ {old}

\* Calls that meet their preconditions.
HeapPush == \E x \in Elem : PushPre(x) /\ Push(x)
HeapPop == PopPre /\ Pop
HeapUpdate == \E old, new \in Elem : UpdatePre(old, new) /\ Update(old, new)

Next == HeapPush \/ HeapPop \/ HeapUpdate

Spec == Init /\ [][Next]_vars

\* Push distinct elements in any order, then pop until the heap is empty;
\* pushed and popped record the arguments and the returned values.
SortPush ==
    \E x \in Elem :
        /\ phase = "push"
        /\ PushPre(x)
        /\ HeapDo(OurHeap_push(heap, rank, x), Call("push", x, 0))
        /\ pushed' = Append(pushed, x)
        /\ UNCHANGED <<in_stack, out_stack, popped, phase, pc, loc, moved,
                       thr, lock, search, fibo, sweep>>

SortPop ==
    /\ PopPre
    /\ HeapDo(OurHeap_pop(heap, rank), Call("pop", 0, 0))
    /\ popped' = Append(popped, ret'.val)
    /\ phase' = "pop"
    /\ UNCHANGED <<in_stack, out_stack, pushed, pc, loc, moved, thr, lock,
                   search, fibo, sweep>>

NextSort == SortPush \/ SortPop

SpecSort == Init /\ [][NextSort]_vars

\* The same with the heap also built by the constructor from a duplicate-free
\* sequence of items; pushed then records the items given to it.
CtorItems ==
    {q \in UNION {[1..n -> Elem] : n \in 0..MaxCtor} :
        \A a, b \in DOMAIN q : q[a] = q[b] => a = b}

SortConstruct ==
    \E items \in CtorItems :
        /\ call.op = "init"
        /\ HeapDo(OurHeap_init(items), Call("construct", Len(items), 0))
        /\ pushed' = items
        /\ UNCHANGED <<in_stack, out_stack, popped, phase, pc, loc, moved,
                       thr, lock, search, fibo, sweep>>

NextCtor == SortConstruct \/ SortPush \/ SortPop

SpecCtor == Init /\ [][NextCtor]_vars

\* Calls with any arguments in any state, preconditions met or not.
AnyPush == \E x \in AnyElem : HeapLen(heap) < MaxSize /\ Push(x)
AnyPop == Pop
AnyUpdate == \E old, new \in AnyElem : Update(old, new)

NextAny == AnyPush \/ AnyPop \/ AnyUpdate

SpecAny == Init /\ [][NextAny]_vars

\* The queue: at most MaxPush pushes, pops only while the queue is non-empty.
QueueDo(res, c) ==
    /\ in_stack' = res.in_stack
    /\ out_stack' = res.out_stack
    /\ ret' = res.ret
    /\ call' = c

QueuePush ==
    \E obj \in Item :
        /\ Len(pushed) < MaxPush
        /\ QueueDo(OurQueue_push(in_stack, out_stack, obj), Call("push", obj, 0))
        /\ pushed' = Append(pushed, obj)
        /\ UNCHANGED <<heap, rank, popped, phase, pc, loc, moved, thr, lock,
                       search, fibo, sweep>>

QueuePop ==
    /\ QueueLen(in_stack, out_stack) > 0
    /\ QueueDo(OurQueue_pop(in_stack, out_stack), Call("pop", 0, 0))
    /\ popped' = Append(popped, ret'.val)
    /\ moved' = moved + pop_transfers(in_stack, out_stack)
    /\ UNCHANGED <<heap, rank, pushed, phase, pc, loc, thr, lock, search,
                   fibo, sweep>>

NextQueue == QueuePush \/ QueuePop

SpecQueue == Init /\ [][NextQueue]_vars

\* The queue with pops issued in any state, the empty queue included; popped
\* records the values that pops returned.
QueuePopAny ==
    /\ QueueDo(OurQueue_pop(in_stack, out_stack), Call("pop", 0, 0))
    /\ popped' = IF ret'.kind = "value" THEN Append(popped, ret'.val) ELSE popped
    /\ moved' = moved + pop_transfers(in_stack, out_stack)
    /\ UNCHANGED <<heap, rank, pushed, phase, pc, loc, thr, lock, search,
                   fibo, sweep>>

NextQueueAny == QueuePush \/ QueuePopAny

SpecQueueAny == Init /\ [][NextQueueAny]_vars

\* The heap one statement group at a time: a call runs its straight-line
\* part, then each iteration of up's or down's loop is a step, and the exit of
\* the loop returns. Calls meet their preconditions and run one at a time.
BeginPush(x) ==
    /\ pc = "idle"
    /\ PushPre(x)
    /\ LET i == Len(heap)
       IN  /\ heap' = Append(heap, x)
           /\ rank' = DictSet(rank, x, i)
           /\ loc' = [i |-> i, x |-> x, n |-> 0, root |-> 0]
    /\ pc' = "up"
    /\ call' = Call("push", x, 0)
    /\ ret' = Pending
    /\ UNCHANGED <<in_stack, out_stack, pushed, popped, phase, moved, thr,
                   lock, search, fibo, sweep>>

BeginPop ==
    /\ pc = "idle"
    /\ PopPre
    /\ LET root == Get(heap, 1)
           r1 == DictDel(rank, root)
           x == Get(heap, Len(heap) - 1)
           h1 == DropLast(heap)
       IN  IF HeapLen(h1) # 0
           THEN /\ heap' = Set(h1, 1, x)
                /\ rank' = DictSet(r1, x, 1)
                /\ loc' = [i |-> 1, x |-> x, n |-> Len(h1), root |-> root]
                /\ pc' = "down"
                /\ ret' = Pending
           ELSE /\ heap' = h1
                /\ rank' = r1
                /\ loc' = NoLoc
                /\ pc' = "idle"
                /\ ret' = Returned(root)
    /\ call' = Call("pop", 0, 0)
    /\ UNCHANGED <<in_stack, out_stack, pushed, popped, phase, moved, thr,
                   lock, search, fibo, sweep>>

BeginUpdate(old, new) ==
    /\ pc = "idle"
    /\ UpdatePre(old, new)
    /\ LET i == rank[old]
       IN  /\ heap' = Set(heap, i, new)
           /\ rank' = DictSet(DictDel(rank, old), new, i)
           /\ pc' = update_dir(old, new)
           /\ loc' = [i |-> i, x |-> new,
                      n |-> IF pc' = "down" THEN Len(heap) ELSE 0, root |-> 0]
    /\ call' = Call("update", old, new)
    /\ ret' = Pending
    /\ UNCHANGED <<in_stack, out_stack, pushed, popped, phase, moved, thr,
                   lock, search, fibo, sweep>>

StepPush == \E x \in Elem : BeginPush(x)
StepPop == BeginPop
StepUpdate == \E old, new \in Elem : BeginUpdate(old, new)

UpIter ==
    /\ pc = "up"
    /\ up_test(heap, loc.i, loc.x)
    /\ LET m == up_move(heap, rank, loc.i)
       IN  heap' = m.heap /\ rank' = m.rank
    /\ loc' = [loc EXCEPT !.i = up_next(loc.i)]
    /\ UNCHANGED <<in_stack, out_stack, call, ret, pushed, popped, phase, pc,
                   moved, thr, lock, search, fibo, sweep>>

UpExit ==
    /\ pc = "up"
    /\ ~up_test(heap, loc.i, loc.x)
    /\ heap' = Set(heap, loc.i, loc.x)
    /\ rank' = DictSet(rank, loc.x, loc.i)
    /\ pc' = "idle"
    /\ loc' = NoLoc
    /\ ret' = ReturnedNone
    /\ UNCHANGED <<in_stack, out_stack, call, pushed, popped, phase, moved,
                   thr, lock, search, fibo, sweep>>

DownIter ==
    /\ pc = "down"
    /\ LET c == down_child(heap, loc.i, loc.x, loc.n)
       IN  /\ c # loc.i
           /\ heap' = Set(heap, loc.i, Get(heap, c))
           /\ rank' = DictSet(rank, Get(heap, c), loc.i)
           /\ loc' = [loc EXCEPT !.i = c]
    /\ UNCHANGED <<in_stack, out_stack, call, ret, pushed, popped, phase, pc,
                   moved, thr, lock, search, fibo, sweep>>

DownExit ==
    /\ pc = "down"
    /\ down_child(heap, loc.i, loc.x, loc.n) = loc.i
    /\ heap' = Set(heap, loc.i, loc.x)
    /\ rank' = DictSet(rank, loc.x, loc.i)
    /\ pc' = "idle"
    /\ loc' = NoLoc
    /\ ret' = IF call.op = "pop" THEN Returned(loc.root) ELSE ReturnedNone
    /\ UNCHANGED <<in_stack, out_stack, call, pushed, popped, phase, moved,
                   thr, lock, search, fibo, sweep>>

Running == UpIter \/ UpExit \/ DownIter \/ DownExit

NextStep == StepPush \/ StepPop \/ StepUpdate \/ Running

SpecStep == Init /\ [][NextStep]_vars

\* A call that has started keeps running until it returns.
SpecStepFair == SpecStep /\ WF_vars(Running)

\* ------------------------------------------------- two threads, one heap
\* Each step of a thread executes one statement of push, pop, up or down on
\* the shared heap and rank; the operators below take the shared lists and the
\* thread's frame l and give the lists and the frame after the statement.
Go(h, r, l) == [heap |-> h, rank |-> r, l |-> l]
Jump(h, r, l, to) == Go(h, r, [l EXCEPT !.pc = to])
Throw(h, r, l, e) == Go(h, r, [l EXCEPT !.pc = "done", !.ret = Raised(e)])
Finish(h, r, l, v) == Go(h, r, [l EXCEPT !.pc = "done", !.ret = v])

\* i is an index of list h.
InList(h, i) == i >= 0 /\ i < Len(h)

\* push: assert x not in self.rank
t_push_assert(h, r, l) ==
    IF l.a \in DOMAIN r
    THEN Throw(h, r, l, "AssertionError")
    ELSE Jump(h, r, l, "push_len")

\* push: i = len(self.heap)
t_push_len(h, r, l) ==
    Go(h, r, [l EXCEPT !.i = Len(h), !.pc = "push_append"])

\* push: self.heap.append(x)
t_push_append(h, r, l) == Jump(Append(h, l.a), r, l, "push_rank")

\* push: self.rank[x] = i, then the call of up(i)
t_push_rank(h, r, l) == Jump(h, DictSet(r, l.a, l.i), l, "up_read")

\* up: x = self.heap[i]
t_up_read(h, r, l) ==
    IF InList(h, l.i)
    THEN Go(h, r, [l EXCEPT !.x = Get(h, l.i), !.pc = "up_test"])
    ELSE Throw(h, r, l, "IndexError")

\* up: while i > 1 and x < self.heap[i // 2]
t_up_test(h, r, l) ==
    IF l.i > 1
    THEN IF ~InList(h, l.i \div 2)
         THEN Throw(h, r, l, "IndexError")
         ELSE IF l.x < Get(h, l.i \div 2)
              THEN Jump(h, r, l, "up_move_heap")
              ELSE Jump(h, r, l, "up_put_heap")
    ELSE Jump(h, r, l, "up_put_heap")

\* up: self.heap[i] = self.heap[i // 2]
t_up_move_heap(h, r, l) ==
    IF InList(h, l.i \div 2) /\ InList(h, l.i)
    THEN Jump(Set(h, l.i, Get(h, l.i \div 2)), r, l, "up_move_rank")
    ELSE Throw(h, r, l, "IndexError")

\* up: self.rank[self.heap[i // 2]] = i; i //= 2
t_up_move_rank(h, r, l) ==
    IF InList(h, l.i \div 2)
    THEN Go(h, DictSet(r, Get(h, l.i \div 2), l.i),
            [l EXCEPT !.i = l.i \div 2, !.pc = "up_test"])
    ELSE Throw(h, r, l, "IndexError")

\* up: self.heap[i] = x
t_up_put_heap(h, r, l) ==
    IF InList(h, l.i)
    THEN Jump(Set(h, l.i, l.x), r, l, "up_put_rank")
    ELSE Throw(h, r, l, "IndexError")

\* Variant of the last statement of up that leaves rank as it is.
t_up_put_norank(h, r, l) == Finish(h, r, l, ReturnedNone)

\* up: self.rank[x] = i, then the return of up and of push
t_up_put_rank(h, r, l) == Finish(h, DictSet(r, l.x, l.i), l, ReturnedNone)

\* pop: root = self.heap[1]
t_pop_root(h, r, l) ==
    IF InList(h, 1)
    THEN Go(h, r, [l EXCEPT !.root = Get(h, 1), !.pc = "pop_del"])
    ELSE Throw(h, r, l, "IndexError")

\* pop: del self.rank[root]
t_pop_del(h, r, l) ==
    IF l.root \in DOMAIN r
    THEN Jump(h, DictDel(r, l.root), l, "pop_last")
    ELSE Throw(h, r, l, "KeyError")

\* pop: x = self.heap.pop()
t_pop_last(h, r, l) ==
    IF Len(h) = 0
    THEN Throw(h, r, l, "IndexError")
    ELSE Go(DropLast(h), r, [l EXCEPT !.x = h[Len(h)], !.pc = "pop_if"])

\* pop: if self (the truth value of len(self)), else return root
t_pop_if(h, r, l) ==
    IF HeapLen(h) < 0
    THEN Throw(h, r, l, "ValueError")
    ELSE IF HeapLen(h) # 0
         THEN Jump(h, r, l, "pop_set_heap")
         ELSE Finish(h, r, l, Returned(l.root))

\* pop: self.heap[1] = x
t_pop_set_heap(h, r, l) ==
    IF InList(h, 1)
    THEN Jump(Set(h, 1, l.x), r, l, "pop_set_rank")
    ELSE Throw(h, r, l, "IndexError")

\* pop: self.rank[x] = 1, then the call of down(1)
t_pop_set_rank(h, r, l) ==
    Go(h, DictSet(r, l.x, 1), [l EXCEPT !.i = 1, !.pc = "down_read"])

\* down: x = self.heap[i]
t_down_read(h, r, l) ==
    IF InList(h, l.i)
    THEN Go(h, r, [l EXCEPT !.x = Get(h, l.i), !.pc = "down_len"])
    ELSE Throw(h, r, l, "IndexError")

\* down: n = len(self.heap)
t_down_len(h, r, l) == Go(h, r, [l EXCEPT !.n = Len(h), !.pc = "down_test"])

\* down: the if / elif / else tests of one loop iteration; c is the child
\* whose branch is taken.
t_down_test(h, r, l) ==
    LET left == 2 * l.i
        right == left + 1
    IN  IF right < l.n /\ ~InList(h, right)
        THEN Throw(h, r, l, "IndexError")
        ELSE IF /\ right < l.n
                /\ Get(h, right) < l.x
                /\ Get(h, right) < Get(h, left)
             THEN Go(h, r, [l EXCEPT !.c = right, !.pc = "down_move_heap"])
             ELSE IF left < l.n /\ ~InList(h, left)
                  THEN Throw(h, r, l, "IndexError")
                  ELSE IF left < l.n /\ Get(h, left) < l.x
                       THEN Go(h, r, [l EXCEPT !.c = left,
                                               !.pc = "down_move_heap"])
                       ELSE Jump(h, r, l, "down_put_heap")

\* down: self.heap[i] = self.heap[right] (or left)
t_down_move_heap(h, r, l) ==
    IF InList(h, l.c) /\ InList(h, l.i)
    THEN Jump(Set(h, l.i, Get(h, l.c)), r, l, "down_move_rank")
    ELSE Throw(h, r, l, "IndexError")

\* down: self.rank[self.heap[right]] = i; i = right (or left)
t_down_move_rank(h, r, l) ==
    IF InList(h, l.c)
    THEN Go(h, DictSet(r, Get(h, l.c), l.i),
            [l EXCEPT !.i = l.c, !.pc = "down_test"])
    ELSE Throw(h, r, l, "IndexError")

\* down: self.heap[i] = x
t_down_put_heap(h, r, l) ==
    IF InList(h, l.i)
    THEN Jump(Set(h, l.i, l.x), r, l, "down_put_rank")
    ELSE Throw(h, r, l, "IndexError")

\* down: self.rank[x] = i; return, then pop's return root
t_down_put_rank(h, r, l) ==
    Finish(h, DictSet(r, l.x, l.i), l, Returned(l.root))

\* The statement at the thread's position.
stmt(h, r, l) ==
    CASE l.pc = "push_assert" -> t_push_assert(h, r, l)
      [] l.pc = "push_len" -> t_push_len(h, r, l)
      [] l.pc = "push_append" -> t_push_append(h, r, l)
      [] l.pc = "push_rank" -> t_push_rank(h, r, l)
      [] l.pc = "up_read" -> t_up_read(h, r, l)
      [] l.pc = "up_test" -> t_up_test(h, r, l)
      [] l.pc = "up_move_heap" -> t_up_move_heap(h, r, l)
      [] l.pc = "up_move_rank" -> t_up_move_rank(h, r, l)
      [] l.pc = "up_put_heap" -> t_up_put_heap(h, r, l)
      [] l.pc = "up_put_rank" -> t_up_put_rank(h, r, l)
      [] l.pc = "pop_root" -> t_pop_root(h, r, l)
      [] l.pc = "pop_del" -> t_pop_del(h, r, l)
      [] l.pc = "pop_last" -> t_pop_last(h, r, l)
      [] l.pc = "pop_if" -> t_pop_if(h, r, l)
      [] l.pc = "pop_set_heap" -> t_pop_set_heap(h, r, l)
      [] l.pc = "pop_set_rank" -> t_pop_set_rank(h, r, l)
      [] l.pc = "down_read" -> t_down_read(h, r, l)
      [] l.pc = "down_len" -> t_down_len(h, r, l)
      [] l.pc = "down_test" -> t_down_test(h, r, l)
      [] l.pc = "down_move_heap" -> t_down_move_heap(h, r, l)
      [] l.pc = "down_move_rank" -> t_down_move_rank(h, r, l)
      [] l.pc = "down_put_heap" -> t_down_put_heap(h, r, l)
      [] l.pc = "down_put_rank" -> t_down_put_rank(h, r, l)

\* No thread is inside a call.
Quiet == \A t \in Thread : thr[t].pc \in {"idle", "done"}

\* With the lock in use a call starts only when no thread holds it.
MayEnter == lock.used => lock.owner = 0

\* The lock is taken on entry when it is in use.
Enter(t) == lock' = IF lock.used THEN [lock EXCEPT !.owner = t] ELSE lock

\* The heap is first filled by one thread, before the concurrent calls.
ThreadSetup ==
    /\ \A t \in Thread : thr[t].pc = "idle"
    /\ HeapLen(heap) < MaxSetup
    /\ \E x \in AnyElem : PushPre(x) /\ Push(x)

\* Thread t calls push(x).
ThreadPush(t) ==
    \E x \in AnyElem :
        /\ thr[t].pc = "idle"
        /\ MayEnter
        /\ Enter(t)
        /\ thr' = [thr EXCEPT ![t] = [IdleThread EXCEPT !.pc = "push_assert",
                                                        !.op = "push",
                                                        !.a = x]]
        /\ UNCHANGED <<heap, rank, in_stack, out_stack, call, ret, pushed,
                       popped, phase, pc, loc, moved, search, fibo, sweep>>

\* Thread t calls pop().
ThreadPop(t) ==
    /\ thr[t].pc = "idle"
    /\ MayEnter
    /\ Enter(t)
    /\ thr' = [thr EXCEPT ![t] = [IdleThread EXCEPT !.pc = "pop_root",
                                                    !.op = "pop"]]
    /\ UNCHANGED <<heap, rank, in_stack, out_stack, call, ret, pushed, popped,
                   phase, pc, loc, moved, search, fibo, sweep>>

\* Thread t executes its next statement; the lock is released when the call
\* returns or raises.
ThreadStep(t) ==
    /\ thr[t].pc \notin {"idle", "done"}
    /\ LET res == stmt(heap, rank, thr[t])
       IN  /\ heap' = res.heap
           /\ rank' = res.rank
           /\ thr' = [thr EXCEPT ![t] = res.l]
           /\ lock' = IF lock.used /\ res.l.pc = "done"
                      THEN [lock EXCEPT !.owner = 0]
                      ELSE lock
    /\ UNCHANGED <<in_stack, out_stack, call, ret, pushed, popped, phase, pc,
                   loc, moved, search, fibo, sweep>>

\* The callers either guard every call with one exclusive lock or use none.
InitThreads ==
    /\ heap = <<None>>
    /\ rank = EmptyDict
    /\ in_stack = <<>>
    /\ out_stack = <<>>
    /\ call = Call("init", 0, 0)
    /\ ret = ReturnedNone
    /\ pushed = <<>>
    /\ popped = <<>>
    /\ phase = "push"
    /\ pc = "idle"
    /\ loc = NoLoc
    /\ moved = 0
    /\ thr = [t \in Thread |-> IdleThread]
    /\ lock \in {[used |-> u, owner |-> 0] : u \in BOOLEAN}
    /\ search = NoSearch
    /\ fibo = NoFibo
    /\ sweep = NoSweep

NextThreads ==
    \/ ThreadSetup
    \/ \E t \in Thread : ThreadPush(t)
    \/ \E t \in Thread : ThreadPop(t)
    \/ \E t \in Thread : ThreadStep(t)

SpecThreads == InitThreads /\ [][NextThreads]_vars

\* ------------------------------------------------------------- util.py
\* The variables of the two data structures, which the functions of util.py
\* leave alone.
dsVars ==
    <<heap, rank, in_stack, out_stack, call, ret, pushed, popped, phase, pc,
      loc, moved, thr, lock>>

\* The sorted boolean arrays of length 1..MaxTab: f times False, then True.
Tabs == {[k \in 1..len |-> k > f] : len \in 1..MaxTab, f \in 0..MaxTab}

\* mid = lo + (hi - lo) // 2
search_mid(lo, hi) == lo + (hi - lo) \div 2

\* One iteration of the loop of discrete_binary_search: the true branch
\* assigns hi, the false branch assigns the local variable low.
search_iter(f) ==
    LET mid == search_mid(f.lo, f.hi)
    IN  IF Get(f.tab, mid)
        THEN [f EXCEPT !.hi = mid]
        ELSE [f EXCEPT !.low = mid + 1]

\* The caller's obligations: 0 <= lo <= hi, hi an index of tab, and the first
\* True value of tab at an index in [lo, hi].
SearchPre(tab, lo, hi) ==
    /\ 0 <= lo
    /\ lo <= hi
    /\ hi < Len(tab)
    /\ \E k \in lo..hi : Get(tab, k) /\ \A j \in 0..(k - 1) : ~Get(tab, j)

\* discrete_binary_search(tab, lo, hi) is called.
SearchCall ==
    \E tab \in Tabs, lo, hi \in 0..(MaxTab - 1) :
        /\ search.pc \in {"idle", "done"}
        /\ SearchPre(tab, lo, hi)
        /\ search' = [pc |-> "loop", tab |-> tab, lo |-> lo, hi |-> hi,
                      low |-> 0, ret |-> Pending]
        /\ UNCHANGED <<dsVars, fibo, sweep>>

\* while lo < hi: the test holds and the body is entered.
SearchTest ==
    /\ search.pc = "loop"
    /\ search.lo < search.hi
    /\ search' = [search EXCEPT !.pc = "body"]
    /\ UNCHANGED <<dsVars, fibo, sweep>>

\* The loop body, then back to the test.
SearchIter ==
    /\ search.pc = "body"
    /\ search' = [search_iter(search) EXCEPT !.pc = "loop"]
    /\ UNCHANGED <<dsVars, fibo, sweep>>

\* The loop test fails: return lo.
SearchExit ==
    /\ search.pc = "loop"
    /\ ~(search.lo < search.hi)
    /\ search' = [search EXCEPT !.pc = "done", !.ret = Returned(search.lo)]
    /\ UNCHANGED <<dsVars, fibo, sweep>>

SearchRunning == SearchTest \/ SearchIter \/ SearchExit

NextSearch == SearchCall \/ SearchRunning

SpecSearch == Init /\ [][NextSearch]_vars

\* A call that has started keeps running.
SpecSearchFair == SpecSearch /\ WF_vars(SearchRunning)

\* fibo_naive
RECURSIVE fibo_naive(_)
fibo_naive(n) == IF n <= 1 THEN n ELSE fibo_naive(n - 1) + fibo_naive(n - 2)

\* mem.append(mem[-2] + mem[-1])
fibo_append(mem) == Append(mem, mem[Len(mem) - 1] + mem[Len(mem)])

\* fibo_dp(n) is called: mem = [0, 1], and the loop starts at i = 2.
FiboCall ==
    \E n \in 0..MaxFib :
        /\ fibo.pc \in {"idle", "done"}
        /\ fibo' = [pc |-> "loop", n |-> n, i |-> 2, mem |-> <<0, 1>>,
                    ret |-> Pending]
        /\ UNCHANGED <<dsVars, search, sweep>>

\* for i in range(2, n + 1): one iteration.
FiboIter ==
    /\ fibo.pc = "loop"
    /\ fibo.i < fibo.n + 1
    /\ fibo' = [fibo EXCEPT !.mem = fibo_append(fibo.mem), !.i = fibo.i + 1]
    /\ UNCHANGED <<dsVars, search, sweep>>

\* The range is exhausted: return mem[-1].
FiboExit ==
    /\ fibo.pc = "loop"
    /\ ~(fibo.i < fibo.n + 1)
    /\ fibo' = [fibo EXCEPT !.pc = "done",
                            !.ret = Returned(fibo.mem[Len(fibo.mem)])]
    /\ UNCHANGED <<dsVars, search, sweep>>

NextFibo == FiboCall \/ FiboIter \/ FiboExit

SpecFibo == Init /\ [][NextFibo]_vars

\* The half-open intervals [l, r) with l < r and end points in 0..MaxPoint,
\* and the lists of at most MaxIntervals of them.
Intervals == {iv \in (0..MaxPoint) \X (0..MaxPoint) : iv[1] < iv[2]}
IntervalLists == UNION {[1..n -> Intervals] : n \in 0..MaxIntervals}

\* B = [(left, +1) for left, right in S] + [(right, -1) for left, right in S]
sweep_events(S) ==
    [k \in 1..Len(S) |-> <<S[k][1], 1>>] \o [k \in 1..Len(S) |-> <<S[k][2], -1>>]

\* The order of tuples: first components, then second components.
tuple_lt(a, b) == a[1] < b[1] \/ (a[1] = b[1] /\ a[2] < b[2])

\* B.sort()
RECURSIVE list_insert(_, _)
list_insert(e, L) ==
    IF L = <<>>
    THEN <<e>>
    ELSE IF tuple_lt(e, Head(L))
         THEN <<e>> \o L
         ELSE <<Head(L)>> \o list_insert(e, Tail(L))

RECURSIVE list_sort(_)
list_sort(L) ==
    IF L = <<>> THEN <<>> ELSE list_insert(Head(L), list_sort(Tail(L)))

\* best is declared (best: tuple[int, NumT]) but has no value.
Unbound == <<>>

\* One iteration of for x, d in B: c += d, then the test on best, which raises
\* while best has no value.
sweep_iter(f) ==
    LET x == f.B[f.k][1]
        d == f.B[f.k][2]
        c1 == f.c + d
    IN  IF f.best = Unbound
        THEN [f EXCEPT !.c = c1, !.pc = "done",
                       !.ret = Raised("UnboundLocalError")]
        ELSE [f EXCEPT !.c = c1, !.k = f.k + 1,
                       !.best = IF f.best[1] < c1 THEN <<c1, x>> ELSE f.best]

\* max_interval_intersec(S) is called: B is built and sorted, c = 0.
SweepCall ==
    \E S \in IntervalLists :
        /\ sweep.pc \in {"idle", "done"}
        /\ sweep' = [pc |-> "loop", S |-> S, B |-> list_sort(sweep_events(S)),
                     k |-> 1, c |-> 0, best |-> Unbound, ret |-> Pending]
        /\ UNCHANGED <<dsVars, search, fibo>>

\* for x, d in B: one iteration.
SweepIter ==
    /\ sweep.pc = "loop"
    /\ sweep.k <= Len(sweep.B)
    /\ sweep' = sweep_iter(sweep)
    /\ UNCHANGED <<dsVars, search, fibo>>

\* B is exhausted: return best.
SweepExit ==
    /\ sweep.pc = "loop"
    /\ sweep.k > Len(sweep.B)
    /\ sweep' = [sweep EXCEPT !.pc = "done",
                              !.ret = IF sweep.best = Unbound
                                      THEN Raised("UnboundLocalError")
                                      ELSE Returned(sweep.best)]
    /\ UNCHANGED <<dsVars, search, fibo>>

NextSweep == SweepCall \/ SweepIter \/ SweepExit

SpecSweep == Init /\ [][NextSweep]_vars

\* ------------------------------------------------------- claim helpers
Min(S) == CHOOSE m \in S : \A y \in S : m <= y

RECURSIVE SortedSeq(_)
SortedSeq(S) ==
    IF S = {} THEN <<>> ELSE <<Min(S)>> \o SortedSeq(S \ {Min(S)})

\* The values returned by popping h until it is empty (or a pop raises).
RECURSIVE Drain(_, _)
Drain(h, r) ==
    IF HeapLen(h) = 0
    THEN <<>>
    ELSE LET p == OurHeap_pop(h, r)
         IN  IF p.ret.kind # "value"
             THEN <<>>
             ELSE <<p.ret.val>> \o Drain(p.heap, p.rank)

Bijection(h, r) ==
    /\ \A i \in 1..HeapLen(h) : Get(h, i) \in DOMAIN r /\ r[Get(h, i)] = i
    /\ DOMAIN r = Stored(h)
    /\ \A i, j \in 1..HeapLen(h) : Get(h, i) = Get(h, j) => i = j

HeapOrder(h) == \A i \in 2..HeapLen(h) : ~(Get(h, i) < Get(h, i \div 2))

\* ----------------------------------------------------------------- claims
\* C1: after any sequence of push, pop and update calls that meet their
\* preconditions, rank and heap are inverse to each other: rank[heap[i]] = i for
\* every occupied slot i, the keys of rank are exactly the stored elements, and
\* no element is stored in two slots.
C1_RankHeapInverse == Bijection(heap, rank)

\* C1 witness: an update has replaced an element by a smaller one that was
\* sifted up to the root of a heap of at least four elements.
C1_Witness ==
    /\ call.op = "update"
    /\ call.b < call.a
    /\ HeapLen(heap) >= 4
    /\ rank[call.b] = 1

\* C2: after any sequence of push, pop and update calls that meet their
\* preconditions, no occupied slot i > 1 holds an element smaller than the one
\* in slot i // 2.
C2_HeapOrder == HeapOrder(heap)

\* C2 witness: a pop has returned the root of a heap that still holds five
\* elements, so the last leaf was sifted down from the root.
C2_Witness ==
    /\ call.op = "pop"
    /\ ret.kind = "value"
    /\ HeapLen(heap) >= 5

\* C4: pop on a non-empty heap returns the least stored element; afterwards the
\* stored set is the previous set minus that element, and the element is no
\* longer a key of rank.
C4_PopReturnsMin ==
    [][(call'.op = "pop" /\ HeapLen(heap) > 0) =>
         /\ ret'.kind = "value"
         /\ ret'.val = Min(Stored(heap))
         /\ Stored(heap') = Stored(heap) \ {ret'.val}
         /\ HeapLen(heap') = HeapLen(heap) - 1
         /\ ret'.val \notin DOMAIN rank']_vars

\* C4 witness: a pop has returned a value and left at least three elements,
\* all of them larger than the value returned.
C4_Witness ==
    /\ call.op = "pop"
    /\ ret.kind = "value"
    /\ HeapLen(heap) >= 3
    /\ \A y \in Stored(heap) : ret.val < y

\* C6: update(old, new) with old stored and new not stored in another slot
\* leaves the heap holding (S \ {old}) \cup {new} with the same length, and
\* popping the heap until it is empty then yields that set in ascending order.
C6_UpdateReplaces ==
    [][(call'.op = "update" /\ UpdatePre(call'.a, call'.b)) =>
         /\ ret'.kind = "none"
         /\ Stored(heap') = (Stored(heap) \ {call'.a}) \cup {call'.b}
         /\ Len(heap') = Len(heap)
         /\ Drain(heap', rank') = SortedSeq(Stored(heap'))]_vars

\* C6 witness: the old root (smaller than everything now stored) was replaced
\* by a larger element that sank two levels.
C6_Witness ==
    /\ call.op = "update"
    /\ call.a < call.b
    /\ \A y \in Stored(heap) : call.a < y
    /\ rank[call.b] >= 4

Range(q) == {q[k] : k \in 1..Len(q)}

\* C3: when distinct elements are pushed in any order into an empty heap and
\* then popped, the values popped so far are the smallest pushed elements in
\* ascending order, and once as many were popped as were pushed the heap is
\* empty (heap is [None], rank has no key).
C3_PopsAscending ==
    phase = "pop" =>
        /\ Len(popped) <= Len(pushed)
        /\ popped = SubSeq(SortedSeq(Range(pushed)), 1, Len(popped))
        /\ \A k \in 1..(Len(popped) - 1) : popped[k] < popped[k + 1]
        /\ Len(popped) = Len(pushed) => (Len(heap) = 1 /\ DOMAIN rank = {})

\* C3 witness: five or more elements pushed in an order that is neither
\* ascending nor descending have all been popped.
C3_Witness ==
    /\ phase = "pop"
    /\ Len(pushed) >= 5
    /\ Len(popped) = Len(pushed)
    /\ pushed[1] > pushed[2]
    /\ pushed[2] < pushed[3]

\* C5: with no pop issued on an empty queue, the values returned by the pops
\* are, in order, the items given to the first pushes: the i-th pop returns
\* the item of the i-th push.
C5_FifoOrder ==
    /\ Len(popped) <= Len(pushed)
    /\ \A k \in 1..Len(popped) : popped[k] = pushed[k]

\* C5 witness: pushes and pops were interleaved (both stacks hold items after
\* two pops) and the two popped items differ.
C5_Witness ==
    /\ Len(popped) >= 2
    /\ popped[1] # popped[2]
    /\ in_stack # <<>>
    /\ out_stack # <<>>
    /\ call.op = "pop"

\* The heap's invariants.
HeapValid(h, r) == Bijection(h, r) /\ HeapOrder(h)

\* C7: update(old, new) on a valid heap where new is stored in a slot other
\* than old's raises an error and leaves heap and rank as they were.
C7_UpdateDupRejected ==
    [][(/\ call'.op = "update"
        /\ HeapValid(heap, rank)
        /\ call'.a \in Stored(heap)
        /\ call'.b \in Stored(heap) \ {call'.a}) =>
         /\ ret'.kind = "raise"
         /\ heap' = heap
         /\ rank' = rank]_vars

\* C8: push(x) on a valid heap that already stores x raises AssertionError and
\* leaves heap and rank as they were, so the invariants still hold.
C8_PushDupRejected ==
    [][(/\ call'.op = "push"
        /\ HeapValid(heap, rank)
        /\ call'.a \in Stored(heap)) =>
         /\ ret' = Raised("AssertionError")
         /\ heap' = heap
         /\ rank' = rank
         /\ HeapValid(heap', rank')]_vars

\* C8 witness: a push of a stored element of a valid three-element heap has
\* raised AssertionError.
C8_Witness ==
    /\ call.op = "push"
    /\ ret.kind = "raise"
    /\ ret.exc = "AssertionError"
    /\ call.a \in Stored(heap)
    /\ HeapLen(heap) >= 3
    /\ HeapValid(heap, rank)

\* C9: update(old, new) with old not stored raises KeyError and leaves heap
\* and rank as they were; new is not inserted.
C9_UpdateMissingRejected ==
    [][(call'.op = "update" /\ call'.a \notin Stored(heap)) =>
         /\ ret' = Raised("KeyError")
         /\ heap' = heap
         /\ rank' = rank
         /\ Stored(heap') = Stored(heap)]_vars

\* C9 witness: an update naming an absent old and an absent new has raised
\* KeyError on a heap of two or more elements.
C9_Witness ==
    /\ call.op = "update"
    /\ ret.kind = "raise"
    /\ ret.exc = "KeyError"
    /\ call.a \notin Stored(heap)
    /\ call.b \notin Stored(heap)
    /\ HeapLen(heap) >= 2

\* C10: pop on the empty heap (heap is [None]) raises IndexError, returns
\* nothing, and leaves heap equal to [None] and rank without keys.
C10_PopEmptyRejected ==
    [][(call'.op = "pop" /\ HeapLen(heap) = 0) =>
         /\ ret' = Raised("IndexError")
         /\ heap' = <<None>>
         /\ DOMAIN rank' = {}]_vars

\* C10 witness: a pop has raised IndexError on the heap [None].
C10_Witness ==
    /\ call.op = "pop"
    /\ ret.kind = "raise"
    /\ ret.exc = "IndexError"
    /\ heap = <<None>>
    /\ DOMAIN rank = {}

\* C11: pop on an empty queue (both stacks empty) raises IndexError and
\* returns no value; both stacks are still empty afterwards and the length is
\* still 0; and with such pops allowed anywhere, the values that pops return
\* are still the pushed items in push order.
C11_QueueUnderflow ==
    /\ [][(call'.op = "pop" /\ in_stack = <<>> /\ out_stack = <<>>) =>
            /\ ret' = Raised("IndexError")
            /\ in_stack' = <<>>
            /\ out_stack' = <<>>
            /\ QueueLen(in_stack', out_stack') = 0
            /\ popped' = popped]_vars
    /\ [](/\ Len(popped) <= Len(pushed)
          /\ \A k \in 1..Len(popped) : popped[k] = pushed[k])

\* C11 witness: after every pushed item was popped (at least two), one more
\* pop has raised IndexError and left both stacks empty.
C11_Witness ==
    /\ call.op = "pop"
    /\ ret.kind = "raise"
    /\ ret.exc = "IndexError"
    /\ Len(popped) >= 2
    /\ Len(popped) = Len(pushed)
    /\ in_stack = <<>>
    /\ out_stack = <<>>

\* C12: after k pushes and j pops (no pop on an empty queue) the length of the
\* queue is k - j, and it is len(in_stack) + len(out_stack).
C12_QueueLength ==
    /\ Len(popped) <= Len(pushed)
    /\ QueueLen(in_stack, out_stack) = Len(pushed) - Len(popped)
    /\ QueueLen(in_stack, out_stack) = Len(in_stack) + Len(out_stack)

\* C12 witness: four pushes and at least one pop, interleaved so that the last
\* call was a push and both stacks hold items.
C12_Witness ==
    /\ Len(pushed) >= 4
    /\ Len(popped) >= 1
    /\ call.op = "push"
    /\ in_stack # <<>>
    /\ out_stack # <<>>

\* A sequence back to front.
Rev(q) == [k \in 1..Len(q) |-> q[Len(q) + 1 - k]]

\* C15: the reverse of out_stack followed by in_stack is the sequence of items
\* pushed and not yet popped, oldest first.
C15_ArrivalOrder ==
    Rev(out_stack) \o in_stack = SubSeq(pushed, Len(popped) + 1, Len(pushed))

\* C15 witness: out_stack holds two different items (so its order matters) and
\* in_stack holds a later one.
C15_Witness ==
    /\ Len(out_stack) >= 2
    /\ out_stack[1] # out_stack[2]
    /\ Len(in_stack) >= 1

\* C16: push leaves out_stack alone and appends to in_stack; pop with a
\* non-empty out_stack removes its last element and leaves in_stack alone; pop
\* with an empty out_stack moves the whole of in_stack, reversed, to out_stack,
\* empties in_stack, and then removes the last element of out_stack.
C16_QueueFrame ==
    [][/\ call'.op = "push" =>
            out_stack' = out_stack /\ in_stack' = Append(in_stack, call'.a)
       /\ (call'.op = "pop" /\ out_stack # <<>>) =>
            /\ in_stack' = in_stack
            /\ out_stack' = DropLast(out_stack)
            /\ ret' = Returned(out_stack[Len(out_stack)])
       /\ (call'.op = "pop" /\ out_stack = <<>>) =>
            /\ in_stack' = <<>>
            /\ out_stack' = DropLast(Rev(in_stack))
            /\ ret' = Returned(in_stack[1])]_vars

\* C16 witness: a pop has taken the last element of out_stack while in_stack
\* held an item, which is still there.
C16_Witness ==
    /\ call.op = "pop"
    /\ Len(popped) >= 2
    /\ in_stack # <<>>
    /\ out_stack = <<>>

\* OurHeap([]) followed by a push of each item from the k-th on.
RECURSIVE PushEach(_, _, _, _)
PushEach(h, r, items, k) ==
    IF k > Len(items)
    THEN [heap |-> h, rank |-> r]
    ELSE LET p == OurHeap_push(h, r, items[k])
         IN  PushEach(p.heap, p.rank, items, k + 1)

\* C13: for a duplicate-free sequence of items, OurHeap(items) has the same
\* heap list and rank map as OurHeap([]) followed by a push of each item in the
\* same order, and the pops of the two heaps return the same values.
C13_ConstructAsPushes ==
    LET e == PushEach(<<None>>, EmptyDict, pushed, 1)
    IN  /\ phase = "push" => (heap = e.heap /\ rank = e.rank)
        /\ Drain(e.heap, e.rank) = popped \o Drain(heap, rank)

\* C13 witness: the constructor was given three or more items, the first
\* larger than the second (as in [3, 1, 2]), and has just returned.
C13_Witness ==
    /\ call.op = "construct"
    /\ Len(pushed) >= 3
    /\ pushed[1] > pushed[2]
    /\ HeapLen(heap) = Len(pushed)

\* C14: the length of the heap object is len(heap list) - 1 and the number of
\* keys of rank; a push raises it by one, a pop lowers it by one, an update
\* leaves it as it is.
C14_HeapLength ==
    /\ [](/\ HeapLen(heap) = Len(heap) - 1
          /\ HeapLen(heap) = Cardinality(DOMAIN rank))
    /\ [][/\ call'.op = "push" => HeapLen(heap') = HeapLen(heap) + 1
          /\ call'.op = "pop" => HeapLen(heap') = HeapLen(heap) - 1
          /\ call'.op = "update" => HeapLen(heap') = HeapLen(heap)]_vars

\* C14 witness: an update on a heap of four elements has returned.
C14_Witness ==
    /\ call.op = "update"
    /\ call.a # call.b
    /\ HeapLen(heap) = 4
    /\ Cardinality(DOMAIN rank) = 4

\* C17: at every step of down, if an existing child of the current slot is
\* smaller than the sifted element, the step moves the smallest existing child
\* up into the current slot and goes on from that child's slot (the right child
\* only when it is smaller than the sifted element and than the left child);
\* down puts the element down and stops only when no existing child is smaller.
C17_DownMovesMinChild ==
    [][pc = "down" =>
         LET i == loc.i
             x == loc.x
             kids == {c \in {2 * i, 2 * i + 1} : c < loc.n}
             small == {c \in kids : Get(heap, c) < x}
         IN  IF small # {}
             THEN /\ pc' = "down"
                  /\ loc'.i \in kids
                  /\ \A c \in kids : Get(heap, loc'.i) <= Get(heap, c)
                  /\ Get(heap', i) = Get(heap, loc'.i)
                  /\ loc'.i = 2 * i + 1 =>
                        /\ Get(heap, 2 * i + 1) < x
                        /\ Get(heap, 2 * i + 1) < Get(heap, 2 * i)
             ELSE /\ pc' = "idle"
                  /\ Get(heap', i) = x]_vars

\* C17 witness: a pop's down is in its third iteration: it went from the root
\* to slot 2 and has then moved the right child of slot 2 up (slot 2 now holds
\* what slot 5 held).
C17_Witness ==
    /\ pc = "down"
    /\ call.op = "pop"
    /\ loc.i = 5
    /\ Get(heap, 2) = Get(heap, 5)

C19_Terminates ==
    /\ (pc # "idle") ~> (pc = "idle")
    /\ [][(pc = "up" /\ pc' = "up") =>
            /\ loc'.i < loc.i
            /\ loc'.i >= 1]_vars
    /\ [][(pc = "down" /\ pc' = "down") =>
            /\ loc'.i > loc.i
            /\ loc'.i < loc.n]_vars

\* C19 witness: the sift-up of a push has climbed from the last slot of a heap
\* of four or more elements to the root.
C19_Witness ==
    /\ pc = "up"
    /\ call.op = "push"
    /\ loc.i = 1
    /\ HeapLen(heap) >= 4

\* The slots on the path from slot i to the root, i included.
RECURSIVE Path(_)
Path(i) == IF i <= 1 THEN {i} ELSE {i} \cup Path(i \div 2)

\* Slot j holds the same element after the step, and that element has the same
\* rank entry.
SlotKept(j) ==
    /\ Get(heap', j) = Get(heap, j)
    /\ rank'[Get(heap, j)] = rank[Get(heap, j)]

\* C20: a valid update(old, new) with old in slot i changes only slots on the
\* path from i to the root when new is smaller than old, and only slots in the
\* subtree rooted at i when new is larger; every other slot and the rank entry
\* of the element stored there are unchanged.  A push changes only the new last
\* slot and slots on its path to the root.
C20_SiftFrame ==
    [][/\ (call'.op = "update" /\ call'.b < call'.a) =>
            /\ Len(heap') = Len(heap)
            /\ \A j \in 1..HeapLen(heap) :
                  j \notin Path(rank[call'.a]) => SlotKept(j)
       /\ (call'.op = "update" /\ call'.b > call'.a) =>
            /\ Len(heap') = Len(heap)
            /\ \A j \in 1..HeapLen(heap) :
                  rank[call'.a] \notin Path(j) => SlotKept(j)
       /\ call'.op = "push" =>
            /\ Len(heap') = Len(heap) + 1
            /\ \A j \in 1..HeapLen(heap) :
                  j \notin Path(Len(heap)) => SlotKept(j)]_vars

\* C20 witness: an update to a smaller element has returned with the new
\* element at the root of a heap of five or more elements, and the replaced
\* element was not at the root (a former root now sits below it).
C20_Witness ==
    /\ call.op = "update"
    /\ call.b < call.a
    /\ ret.kind = "none"
    /\ HeapLen(heap) >= 5
    /\ rank[call.b] = 1
    /\ (Get(heap, 2) < call.a \/ Get(heap, 3) < call.a)

\* C21: over any sequence of OurQueue pushes and pops, the total number of
\* element transfers from in_stack to out_stack never exceeds the number of
\* pushes: every transferred item is either still in out_stack or has been
\* popped.  An item enters in_stack only by a push, out_stack is refilled only
\* when it is empty and then takes every item of in_stack, which is emptied,
\* and an item leaves out_stack only by being returned.
C21_TransferOnce ==
    /\ [](moved <= Len(pushed))
    /\ [](moved = Len(popped) + Len(out_stack))
    /\ [][/\ Len(in_stack') > Len(in_stack) =>
               /\ call'.op = "push"
               /\ in_stack' = Append(in_stack, call'.a)
               /\ out_stack' = out_stack
               /\ moved' = moved
          /\ (call'.op = "pop" /\ out_stack # <<>>) =>
               /\ in_stack' = in_stack
               /\ out_stack' = DropLast(out_stack)
               /\ moved' = moved
          /\ (call'.op = "pop" /\ out_stack = <<>> /\ in_stack # <<>>) =>
               /\ in_stack' = <<>>
               /\ Append(out_stack', ret'.val) = Rev(in_stack)
               /\ moved' = moved + Len(in_stack)]_vars

\* C21 witness: three or more items have been transferred, two or more of them
\* popped, and a pop has just returned leaving items in both stacks.
C21_Witness ==
    /\ call.op = "pop"
    /\ ret.kind = "value"
    /\ moved >= 3
    /\ Len(popped) >= 2
    /\ in_stack # <<>>
    /\ out_stack # <<>>

\* C22: with one exclusive lock around each whole call, whenever no call is
\* running the rank/heap bijection and the heap order hold, whatever the two
\* threads call and however their calls are scheduled; a call runs alone from
\* its first statement to its return.  Without the lock the statements of the
\* two calls interleave and a state where both invariants hold no more is
\* reachable after both calls have returned (C22_Witness).
C22_LockedCallsSafe ==
    /\ (lock.used /\ Quiet) => HeapValid(heap, rank)
    /\ lock.used =>
          \A t, u \in Thread :
              (t # u /\ thr[t].pc \notin {"idle", "done"}) =>
                  thr[u].pc \in {"idle", "done"}

\* C22 witness: no lock is used, both calls have returned without raising, and
\* the bijection or the heap order is violated.
C22_Witness ==
    /\ ~lock.used
    /\ \A t \in Thread : thr[t].pc = "done" /\ thr[t].ret.kind # "raise"
    /\ ~HeapValid(heap, rank)

\* The index of the first True value of tab.
FirstTrue(tab) ==
    CHOOSE k \in 0..(Len(tab) - 1) :
        Get(tab, k) /\ \A j \in 0..(k - 1) : ~Get(tab, j)

\* C23: for every sorted boolean array tab and bounds 0 <= lo <= hi with the
\* first True index in [lo, hi], discrete_binary_search(tab, lo, hi)
\* terminates and returns the index of the first True value, also when
\* tab[lo] is False.
C23_SearchFindsFirstTrue ==
    /\ (search.pc \in {"loop", "body"}) ~> (search.pc = "done")
    /\ [](search.pc = "done" =>
            search.ret = Returned(FirstTrue(search.tab)))

\* C24: for every n >= 0, n = 0 and n = 1 included, fibo_dp(n) returns the
\* Fibonacci number F(n) with F(0) = 0, F(1) = 1, F(i) = F(i-1) + F(i-2), the
\* value of fibo_naive(n).
C24_FiboDpIsFibonacci ==
    fibo.pc = "done" => fibo.ret = Returned(fibo_naive(fibo.n))

\* The number of intervals of S that contain the point p.
CountAt(S, p) ==
    Cardinality({k \in 1..Len(S) : S[k][1] <= p /\ p < S[k][2]})

\* C25: for every non-empty list S of half-open intervals [l, r) with l < r,
\* max_interval_intersec(S) returns a pair (c, x) where x lies in exactly c
\* intervals of S and no point lies in more than c intervals of S.
C25_MaxIntersection ==
    (sweep.pc = "done" /\ sweep.S # <<>>) =>
        /\ sweep.ret.kind = "value"
        /\ CountAt(sweep.S, sweep.ret.val[2]) = sweep.ret.val[1]
        /\ \A p \in 0..MaxPoint : CountAt(sweep.S, p) <= sweep.ret.val[1]

====
